---- MODULE Spec2Model ----
(***************************************************************************)
(* K-1 batch processor (src/k1_processor.py, class K1BatchProcessor).      *)
(*                                                                         *)
(* Persistent state: the input directory files/, the extraction cache      *)
(* cache/k1_array_cache.pkl and the investor table investors.xlsx.         *)
(* Process state: the k1_array of one K1BatchProcessor object and the      *)
(* locals of its last operation.  One action per public operation.         *)
(*                                                                         *)
(* Python strings are TLA+ strings; a character is a string of length 1.   *)
(* The curly apostrophe U+2019 is written "~" (a TLA+ string holds ASCII   *)
(* only); no other string of the model holds a tilde.                     *)
(* send_emails is modelled up to the evaluation of its row selection,     *)
(* which raises in every call; the statements after it are not reached.   *)
(* Its recipient loops are modelled as a function of the row they read.   *)
(* Not modelled: the snapshot copy and the S3 sync                         *)
(* (_save_investors_snapshot, _sync_to_s3 and the *_changed flags), which  *)
(* no modelled operation reads.                                            *)
(***************************************************************************)
EXTENDS Integers, Sequences, FiniteSets, TLC

\* ------------------------------------------------------------------ bounds
\* Most PDF files of the catalogue that ever stand in files/.
MaxFiles == 2
\* Most rows the investor table may hold when reconciliation is started.
MaxRows == 4
\* Longest text drawn for a field of a record under SpecKeys.
MaxLen == 3
\* Most parts in the text drawn for a field of the investor row under SpecNull.
MaxParts == 3
\* Most fragments in the line drawn for the receiving entity under SpecRules.
MaxFragments == 2
\* Most send phases in a row under SpecSend.
MaxPhases == 2
\* Most documents of a reconciliation whose match rate is printed under
\* SpecRate.
MaxDocs == 50

\* ------------------------------------------------------------ Python values
\* Python None (k1_array fields) and pandas NaN (table cells): values that are
\* no text; neither is the result of any string operation below.
None == "<None>"
NaN == "<NaN>"
\* The Python booleans as cells of a table.
True == "<True>"
False == "<False>"

isna(v) == v = None \/ v = NaN
notna(v) == ~isna(v)

\* str(v) as an f-string formats it.
Format(v) == IF v = None THEN "None" ELSE IF v = NaN THEN "nan" ELSE v

\* ------------------------------------------------------------ str methods
UpperCase == "ABCDEFGHIJKLMNOPQRSTUVWXYZ"
LowerCase == "abcdefghijklmnopqrstuvwxyz"
Digits == "0123456789"

CharAt(s, i) == SubSeq(s, i, i)
Rest(s) == SubSeq(s, 2, Len(s))
Chars(s) == {CharAt(s, i) : i \in 1..Len(s)}

\* sub in s
Contains(s, sub) ==
    \E i \in 1..(Len(s) - Len(sub) + 1) : SubSeq(s, i, i + Len(sub) - 1) = sub

\* s.endswith(suffix)
EndsWith(s, suffix) ==
    /\ Len(s) >= Len(suffix)
    /\ SubSeq(s, Len(s) - Len(suffix) + 1, Len(s)) = suffix

UpperChars == Chars(UpperCase)
LowerOf ==
    [c \in UpperChars |->
        CharAt(LowerCase, CHOOSE i \in 1..Len(UpperCase) : CharAt(UpperCase, i) = c)]

LowerChar(c) == IF c \in UpperChars THEN LowerOf[c] ELSE c

RECURSIVE lower(_)
\* s.lower()
lower(s) == IF s = "" THEN "" ELSE LowerChar(CharAt(s, 1)) \o lower(Rest(s))

IsSpace(c) == c = " " \/ c = "\t"

RECURSIVE lstrip(_)
lstrip(s) == IF s # "" /\ IsSpace(CharAt(s, 1)) THEN lstrip(Rest(s)) ELSE s

RECURSIVE rstrip(_)
rstrip(s) ==
    IF s # "" /\ IsSpace(CharAt(s, Len(s)))
    THEN rstrip(SubSeq(s, 1, Len(s) - 1))
    ELSE s

\* s.strip()
strip(s) == rstrip(lstrip(s))

\* Code point order of the characters the model uses (ASCII in code
\* point order, then U+2019).
CodePoints ==
    "\t !#&'(),-./0123456789:ABCDEFGHIJKLMNOPQRSTUVWXYZ_abcdefghijklmnopqrstuvwxyz~"

OrdOf ==
    [c \in Chars(CodePoints) |->
        CHOOSE i \in 1..Len(CodePoints) : CharAt(CodePoints, i) = c]

\* ord(c)
Ord(c) == OrdOf[c]

RECURSIVE StrLess(_, _)
\* s < t on Python strings
StrLess(s, t) ==
    IF t = "" THEN FALSE
    ELSE IF s = "" THEN TRUE
    ELSE IF CharAt(s, 1) = CharAt(t, 1) THEN StrLess(Rest(s), Rest(t))
    ELSE Ord(CharAt(s, 1)) < Ord(CharAt(t, 1))

\* ------------------------------------------------------- key normalisation
\* stop_characters_translation_table: the characters deleted from a key.
StopCharacters == {" ", ".", ",", "~", "'"}

RECURSIVE translate_commas_periods_spaces(_)
\* A translation table without the two apostrophes.
translate_commas_periods_spaces(s) ==
    IF s = "" THEN ""
    ELSE (IF CharAt(s, 1) \in {" ", ".", ","} THEN "" ELSE CharAt(s, 1))
         \o translate_commas_periods_spaces(Rest(s))

RECURSIVE translate(_)
\* s.translate(stop_characters_translation_table)
translate(s) ==
    IF s = "" THEN ""
    ELSE (IF CharAt(s, 1) \in StopCharacters THEN "" ELSE CharAt(s, 1))
         \o translate(Rest(s))

\* The key without .lower().
MatchingKeyAsSpelled(k1_info) ==
    translate(Format(k1_info.investment_name) \o "#"
              \o Format(k1_info.issuing_entity) \o "#"
              \o Format(k1_info.receiving_entity))

\* The right-hand side of the assignment in _create_matching_keys.
MatchingKey(k1_info) ==
    translate(lower(Format(k1_info.investment_name) \o "#"
                    \o Format(k1_info.issuing_entity) \o "#"
                    \o Format(k1_info.receiving_entity)))

\* ------------------------------------------------------ regular expressions
WordChars == Chars(LowerCase \o UpperCase \o Digits \o "_")
IsWordChar(c) == c \in WordChars

RECURSIVE MatchFrom(_, _, _)
\* The words of a pattern \bw1\s+w2...\s+wn\b matched in s from position i.
MatchFrom(s, i, words) ==
    LET w == Head(words)
        j == i + Len(w)
    IN  /\ j - 1 <= Len(s)
        /\ SubSeq(s, i, j - 1) = w
        /\ IF Len(words) = 1
           THEN j > Len(s) \/ ~IsWordChar(CharAt(s, j))
           ELSE \E k \in (j + 1)..Len(s) :
                    /\ \A m \in j..(k - 1) : IsSpace(CharAt(s, m))
                    /\ MatchFrom(s, k, Tail(words))

\* re.search(pattern, s) for such a pattern.
Search(words, s) ==
    \E i \in 1..(Len(s) - Len(Head(words)) + 1) :
        /\ SubSeq(s, i, i + Len(Head(words)) - 1) = Head(words)
        /\ i = 1 \/ ~IsWordChar(CharAt(s, i - 1))
        /\ MatchFrom(s, i, words)

\* The pattern " \(cid:\d{3}\)X" matched at the head of s.
CidAtHead(s) ==
    /\ Len(s) >= 11
    /\ SubSeq(s, 1, 6) = " (cid:"
    /\ \A m \in 7..9 : CharAt(s, m) \in Chars(Digits)
    /\ SubSeq(s, 10, 11) = ")X"

RECURSIVE RemoveCid(_)
\* re.sub(r" \(cid:\d{3}\)X", "", s)
RemoveCid(s) ==
    IF s = "" THEN ""
    ELSE IF CidAtHead(s) THEN RemoveCid(SubSeq(s, 12, Len(s)))
    ELSE CharAt(s, 1) \o RemoveCid(Rest(s))

\* The rules with every one-word pattern first.
broad_first_regexp == <<
    [words |-> <<"st">>, up |-> TRUE],
    [words |-> <<"street">>, up |-> TRUE],
    [words |-> <<"road">>, up |-> TRUE],
    [words |-> <<"lane">>, up |-> TRUE],
    [words |-> <<"ave">>, up |-> TRUE],
    [words |-> <<"avenue">>, up |-> TRUE],
    [words |-> <<"1021", "38th", "street", "investment">>, up |-> FALSE],
    [words |-> <<"1021", "38th", "street">>, up |-> TRUE],
    [words |-> <<"38th", "street">>, up |-> FALSE],
    [words |-> <<"benedikt", "road">>, up |-> FALSE] >>

\* receiving_entity_regexp: (pattern, move one line up), in list order.
receiving_entity_regexp == <<
    [words |-> <<"1021", "38th", "street", "investment">>, up |-> FALSE],
    [words |-> <<"1021", "38th", "street">>, up |-> TRUE],
    [words |-> <<"38th", "street">>, up |-> FALSE],
    [words |-> <<"benedikt", "road">>, up |-> FALSE],
    [words |-> <<"st">>, up |-> TRUE],
    [words |-> <<"street">>, up |-> TRUE],
    [words |-> <<"road">>, up |-> TRUE],
    [words |-> <<"lane">>, up |-> TRUE],
    [words |-> <<"ave">>, up |-> TRUE],
    [words |-> <<"avenue">>, up |-> TRUE] >>

\* The instruction of the last pattern that matches.
LastMatch(lowered) ==
    LET hits == {n \in 1..Len(receiving_entity_regexp) :
                    Search(receiving_entity_regexp[n].words, lowered)}
    IN  IF hits = {} THEN FALSE
        ELSE receiving_entity_regexp[CHOOSE n \in hits : \A m \in hits : n >= m].up

\* move_one_line_up after the rule loop: the instruction of the first pattern
\* that matches, False when none does.
FirstMatch(lowered) ==
    LET hits == {n \in 1..Len(receiving_entity_regexp) :
                    Search(receiving_entity_regexp[n].words, lowered)}
    IN  IF hits = {} THEN FALSE
        ELSE receiving_entity_regexp[CHOOSE n \in hits : \A m \in hits : n <= m].up

MoveOneLineUp(receiving_entity) == FirstMatch(lower(receiving_entity))

\* ------------------------------------------------------------ PDF catalogue
\* The PDF files that may stand in files/<folder>/: the text lines of each
\* page as page.extract_text().splitlines() gives them.
CoverPage == << "ACME FOREST LLC", "2023 Tax Package" >>

PdfCatalogue == <<
    \* well formed, the K-1 on the second page
    [folder |-> "ACME FUND", file |-> "a.pdf", pages |-> <<
        CoverPage,
        << "Schedule K-1 (Form 1065) 2023",
           "Part I Information About the Partnership",
           "A EIN", "B Name",
           "ACME FOREST LLC",
           "Part II Information About the Partner",
           "E SSN", "F Name",
           "JOHN Q. PUBLIC",
           "9 Elm Street" >>,
        << "Schedule K-1 (Form 1065) State copy",
           "Part I Information About the Partnership",
           "A", "B", "STATE COPY LLC" >> >>],
    \* no page holds the form marker
    [folder |-> "ACME FUND", file |-> "b.pdf", pages |-> << CoverPage >>],
    \* the second anchor stands two lines before the end of the page
    [folder |-> "Oak Grove", file |-> "c.pdf", pages |-> <<
        << "Schedule K-1 (Form 1065)",
           "Part I Information About the Partnership",
           "A", "B", "OAK GROVE LLC",
           "Part II Information About the Partner",
           "E", "F" >> >>],
    \* only the first anchor is on the marker page
    [folder |-> "Oak Grove", file |-> "d.pdf", pages |-> <<
        << "Schedule K-1 (Form 1065)",
           "Part I Information About the Partnership",
           "A", "B", "OAK GROVE LLC", "End" >> >>],
    \* the same entities as a.pdf in another spelling
    [folder |-> "Acme Fund", file |-> "e.PDF", pages |-> <<
        << "Schedule K-1 (Form 1065) 2023",
           "Part I Information About the Partnership",
           "A", "B",
           "  Acme Forest, L.L.C.",
           "Part II Information About the Partner",
           "E", "F",
           "John Q Public ",
           "NY" >> >>],
    \* long line spill, decoding anomaly, address line at the fixed offset
    [folder |-> "Oak Grove", file |-> "f.pdf", pages |-> <<
        << "Schedule K-1 (Form 1065) 2023",
           "Part I Information About the Partnership",
           "A",
           "OAK GROVE (cid:133)X",
           "INVESTORS LLC",
           "Part II Information About the Partner",
           "E",
           "JANE O'ROE",
           "12 Main Street" >> >>] >>

\* Entries of files/ that _gather_files passes over.
OtherEntries == {
    [folder |-> "ACME FUND", file |-> "Managers K-1.pdf"],
    [folder |-> "ACME FUND", file |-> "notes.txt"],
    [folder |-> ".DS_Store", file |-> ""] }

PdfEntries == {[folder |-> PdfCatalogue[n].folder, file |-> PdfCatalogue[n].file] :
                 n \in 1..Len(PdfCatalogue)}

\* f"{asset_folder}/{file}"
PathOf(entry) == entry.folder \o "/" \o entry.file

\* os.path.isdir(asset_folder_path)
IsDir(folder) == folder # ".DS_Store"

PdfPaths == [n \in 1..Len(PdfCatalogue) |->
                PathOf([folder |-> PdfCatalogue[n].folder, file |-> PdfCatalogue[n].file])]

\* The place in the catalogue of the PDF at files/<path>.
PdfIndex(path) == CHOOSE n \in 1..Len(PdfCatalogue) : PdfPaths[n] = path

\* ------------------------------------------------------------- extraction
\* A dict key that is not set, a local variable that is not bound yet.
Absent == "<absent>"
Unbound == "<unbound>"

FormMarker == "Schedule K-1 (Form 1065)"
PartnershipAnchor == "Part I Information About the Partnership"
PartnerAnchor == "Part II Information About the Partner"

\* The record _gather_files appends for a new file.
NewK1Info(entry) ==
    [path |-> PathOf(entry), investment_name |-> entry.folder,
     issuing_entity |-> None, receiving_entity |-> None,
     k1_matching_key |-> Absent]

\* The body of `if "Part I Information About the Partnership" in line`.
\* st: [k1_info, issuing_entity, receiving_entity, error]: the two entity
\* fields of the record, the two locals of extract_entities, the exception.
IssuingStep(lines, line_number, st) ==
    IF line_number + 3 > Len(lines)
    THEN [st EXCEPT !.error = "IndexError"]
    ELSE LET naive == strip(lines[line_number + 3])
             spilled == IF lower(naive) = "investors llc"
                        THEN strip(lines[line_number + 2]) \o " " \o naive
                        ELSE naive
             issuing_entity == RemoveCid(spilled)
         IN  [st EXCEPT !.issuing_entity = issuing_entity,
                        !.k1_info.issuing_entity = issuing_entity]

\* The body of `if "Part II Information About the Partner" in line`.
ReceivingStep(lines, line_number, st) ==
    LET receiving_entity_index == line_number + 3
    IN  IF receiving_entity_index > Len(lines)
        THEN [st EXCEPT !.error = "IndexError"]
        ELSE LET naive == strip(lines[receiving_entity_index])
                 receiving_entity ==
                     IF MoveOneLineUp(naive)
                     THEN strip(lines[receiving_entity_index - 1])
                     ELSE naive
             IN  [st EXCEPT !.receiving_entity = receiving_entity,
                            !.k1_info.receiving_entity = receiving_entity]

RECURSIVE LineLoop(_, _, _)
\* for line_number, line in enumerate(lines), from line_number on.
LineLoop(lines, line_number, st) ==
    IF line_number > Len(lines) \/ st.error # "none" THEN st
    ELSE LET line == lines[line_number]
             s1 == IF Contains(line, PartnershipAnchor)
                   THEN IssuingStep(lines, line_number, st) ELSE st
             s2 == IF s1.error = "none" /\ Contains(line, PartnerAnchor)
                   THEN ReceivingStep(lines, line_number, s1) ELSE s1
         IN  LineLoop(lines, line_number + 1, s2)

\* "Schedule K-1 (Form 1065)" in text
HasMarker(page) == \E n \in 1..Len(page) : Contains(page[n], FormMarker)

\* for page in pdf.pages: the first page with the marker is scanned, the
\* pages after it are not.
PageLoop(pages, st) ==
    LET marked == {n \in 1..Len(pages) : HasMarker(pages[n])}
    IN  IF marked = {} THEN st
        ELSE LineLoop(pages[CHOOSE n \in marked : \A m \in marked : n <= m], 1, st)

\* The page loop on each PDF of the catalogue, computed once: what it
\* assigns (Unbound: no assignment) and the exception it raises.  It reads
\* nothing but the pages.
PageLoopTable ==
    [n \in 1..Len(PdfCatalogue) |->
        PageLoop(PdfCatalogue[n].pages,
                 [k1_info |-> [issuing_entity |-> Unbound, receiving_entity |-> Unbound],
                  issuing_entity |-> Unbound, receiving_entity |-> Unbound,
                  error |-> "none"])]

Assigned(new, old) == IF new = Unbound THEN old ELSE new

\* One iteration of `for index, k1_info in enumerate(k1_files_to_extract)`
\* on k1_array[n].  ex: [array, issuing_entity, receiving_entity, error,
\* opened]; dir is the content of files/.
ExtractOne(ex, n, dir) ==
    LET k1_info == ex.array[n]
    IN  IF ~\E e \in dir : PathOf(e) = k1_info.path
        THEN [ex EXCEPT !.error = "FileNotFoundError"]
        ELSE LET st == PageLoopTable[PdfIndex(k1_info.path)]
                 issuing_entity == Assigned(st.issuing_entity, ex.issuing_entity)
                 receiving_entity == Assigned(st.receiving_entity, ex.receiving_entity)
                 \* the FOUND print reads both locals
                 error == IF st.error # "none" THEN st.error
                          ELSE IF issuing_entity = Unbound \/ receiving_entity = Unbound
                          THEN "UnboundLocalError"
                          ELSE "none"
             IN  [array |-> [ex.array EXCEPT
                     ![n].issuing_entity =
                         Assigned(st.k1_info.issuing_entity, k1_info.issuing_entity),
                     ![n].receiving_entity =
                         Assigned(st.k1_info.receiving_entity, k1_info.receiving_entity)],
                  issuing_entity |-> issuing_entity,
                  receiving_entity |-> receiving_entity,
                  error |-> error,
                  opened |-> Append(ex.opened, k1_info.path)]

\* A filter that passes every record.
ToExtractAgain(k1_info) == TRUE

\* k1_files_to_extract, as the indices of its records in k1_array.
ToExtract(k1_info) == k1_info.issuing_entity = None /\ k1_info.receiving_entity = None

FilesToExtract(array) ==
    SelectSeq([n \in 1..Len(array) |-> n], LAMBDA n : ToExtract(array[n]))

RECURSIVE ExtractLoop(_, _, _)
\* The loop over k1_files_to_extract; it ends at the first exception.
ExtractLoop(todo, ex, dir) ==
    IF todo = << >> \/ ex.error # "none" THEN ex
    ELSE ExtractLoop(Tail(todo), ExtractOne(ex, Head(todo), dir), dir)

\* _create_matching_keys on the whole k1_array.
CreateMatchingKeys(array) ==
    [n \in 1..Len(array) |->
        [array[n] EXCEPT !.k1_matching_key = MatchingKey(array[n])]]

\* ---------------------------------------------------------- investor table
\* Rows investors.xlsx may hold before the first run.  k1_matching_key is a
\* spreadsheet column; the row of "Janet" holds a key made without removing
\* apostrophes, the others hold the key of their three fields.
\* The columns the operator fills in; a row is entered active, with the
\* override left blank.
InvestorFields(first_name, investment_name, issuing_entity, receiving_entity) ==
    [first_name |-> first_name, investment_name |-> investment_name,
     issuing_entity |-> issuing_entity, receiving_entity |-> receiving_entity,
     active |-> True, do_not_send_override |-> ""]

\* The same with the two send switches set.
Switched(fields, active, do_not_send_override) ==
    [fields EXCEPT !.active = active,
                   !.do_not_send_override = do_not_send_override]

InvestorRow(fields, k1_matching_key, email_status, matched_k1_filename) ==
    [first_name |-> fields.first_name,
     investment_name |-> fields.investment_name,
     issuing_entity |-> fields.issuing_entity,
     receiving_entity |-> fields.receiving_entity,
     active |-> fields.active,
     do_not_send_override |-> fields.do_not_send_override,
     k1_matching_key |-> k1_matching_key,
     email_status |-> email_status,
     matched_k1_filename |-> matched_k1_filename]

John == InvestorFields("John", "Acme Fund", "Acme Forest LLC", "John Q Public")
Jane == InvestorFields("Jane", "Oak Grove", "Oak Grove Investors LLC", "Jane O~Roe")
Joan == InvestorFields("Joan", "ACME FUND", "ACME FOREST, LLC", "JOHN Q. PUBLIC")
Janet == Switched(InvestorFields("Janet", "Oak Grove", "Oak Grove Investors LLC",
                                 "Jane O'Roe"),
                  "", True)

InvestorCatalogue == <<
    InvestorRow(Jane, MatchingKey(Jane), "sent", "Oak Grove/f.pdf"),
    InvestorRow(Janet, "oakgrove#oakgroveinvestorsllc#janeo'roe", NaN, NaN),
    InvestorRow(John, MatchingKey(John), NaN, NaN),
    InvestorRow(Joan, MatchingKey(Joan), "fail 400: Bad Request", "ACME FUND/a.pdf") >>

\* pd.read_excel: an empty cell is read as NaN.
ReadCell(v) == IF v = "" THEN NaN ELSE v

ReadExcel(table) ==
    [n \in 1..Len(table) |->
        InvestorRow(Switched(InvestorFields(ReadCell(table[n].first_name),
                                            ReadCell(table[n].investment_name),
                                            ReadCell(table[n].issuing_entity),
                                            ReadCell(table[n].receiving_entity)),
                             ReadCell(table[n].active),
                             ReadCell(table[n].do_not_send_override)),
                    ReadCell(table[n].k1_matching_key),
                    ReadCell(table[n].email_status),
                    ReadCell(table[n].matched_k1_filename))]

\* ----------------------------------------------------------- reconciliation
\* Order of one sort column: text in code point order, missing values last.
ColLess(x, y) ==
    IF isna(x) \/ x = y THEN FALSE ELSE IF isna(y) THEN TRUE ELSE StrLess(x, y)

ColEq(x, y) == (isna(x) /\ isna(y)) \/ x = y

\* by=["investment_name", "receiving_entity"]
RowLess(a, b) ==
    \/ ColLess(a.investment_name, b.investment_name)
    \/ /\ ColEq(a.investment_name, b.investment_name)
       /\ ColLess(a.receiving_entity, b.receiving_entity)

\* The rows left in the order they have.
Unsorted(rows) == rows

RECURSIVE SortValues(_)
\* df.sort_values(by=[...]) on several columns: a stable sort.
SortValues(rows) ==
    IF rows = << >> THEN << >>
    ELSE LET front == SortValues(SubSeq(rows, 1, Len(rows) - 1))
             x == rows[Len(rows)]
             k == Cardinality({n \in 1..Len(front) : ~RowLess(x, front[n])})
         IN  SubSeq(front, 1, k) \o << x >> \o SubSeq(front, k + 1, Len(front))

\* A row of merged_df: the investor row, the path of the joined document and
\* (left) the position of the investor row in investors_df.
MergedRow(investor, left, path) ==
    [first_name |-> investor.first_name,
     investment_name |-> investor.investment_name,
     issuing_entity |-> investor.issuing_entity,
     receiving_entity |-> investor.receiving_entity,
     active |-> investor.active,
     do_not_send_override |-> investor.do_not_send_override,
     k1_matching_key |-> investor.k1_matching_key,
     email_status |-> investor.email_status,
     matched_k1_filename |-> investor.matched_k1_filename,
     path |-> path, left |-> left]

\* A join that keeps one document for each investor row.
JoinFirstRow(investors_df, left, k1_df) ==
    LET hits == SelectSeq(k1_df, LAMBDA d :
                    d.k1_matching_key = investors_df[left].k1_matching_key)
    IN  << MergedRow(investors_df[left], left,
                     IF hits = << >> THEN NaN ELSE hits[1].path) >>

\* The rows a left join gives for investors_df[left].
JoinRows(investors_df, left, k1_df) ==
    LET hits == SelectSeq(k1_df, LAMBDA d :
                    d.k1_matching_key = investors_df[left].k1_matching_key)
    IN  IF hits = << >>
        THEN << MergedRow(investors_df[left], left, NaN) >>
        ELSE [n \in 1..Len(hits) |-> MergedRow(investors_df[left], left, hits[n].path)]

RECURSIVE MergeFrom(_, _, _)
\* pd.merge(investors_df, k1_matching_key_df, on="k1_matching_key", how="left")
MergeFrom(investors_df, left, k1_df) ==
    IF left > Len(investors_df) THEN << >>
    ELSE JoinRows(investors_df, left, k1_df) \o MergeFrom(investors_df, left + 1, k1_df)

\* The lambda without the test of the present status.
StatusOfMatched(row) ==
    IF notna(row.matched_k1_filename) THEN "file_found" ELSE row.email_status

\* The lambda of merged_df.apply on one row.
StatusWriteBack(row) ==
    IF notna(row.matched_k1_filename) /\ isna(row.email_status)
    THEN "file_found"
    ELSE row.email_status

\* merged_df after the join, the filename column, the sort and the status
\* write-back.
Reconcile(investors_df, k1_df) ==
    LET joined == MergeFrom(investors_df, 1, k1_df)
        named == [n \in 1..Len(joined) |->
                     [joined[n] EXCEPT !.matched_k1_filename = joined[n].path]]
        sorted == SortValues(named)
    IN  [n \in 1..Len(sorted) |->
            [sorted[n] EXCEPT !.email_status = StatusWriteBack(sorted[n])]]

\* merged_df.drop(columns=[...]).to_excel("investors.xlsx")
ToExcel(merged) ==
    [n \in 1..Len(merged) |->
        InvestorRow(merged[n], merged[n].k1_matching_key, merged[n].email_status,
                    merged[n].matched_k1_filename)]

\* k1_matching_key_df[~k1_matching_key_df["k1_matching_key"].isin(
\*     merged_df["k1_matching_key"])].sort_values(...)
UnmatchedFiles(k1_df, merged) ==
    SortValues(SelectSeq(k1_df, LAMBDA d :
        ~\E n \in 1..Len(merged) : merged[n].k1_matching_key = d.k1_matching_key))

\* -------------------------------------------------------------- match rate
\* str(d) of one decimal digit.
DigitText(d) == SubSeq(Digits, d + 1, d + 1)

RECURSIVE Decimal(_)
\* str(n) of a natural number.
Decimal(n) ==
    IF n < 10 THEN DigitText(n) ELSE Decimal(n \div 10) \o DigitText(n % 10)

\* The whole number nearest to num / den, the even one of two equally near:
\* the rounding of the float formatter.
RoundHalfEven(num, den) ==
    LET q == num \div den
        r == num % den
    IN  IF 2 * r < den THEN q
        ELSE IF 2 * r > den THEN q + 1
        ELSE IF q % 2 = 0 THEN q ELSE q + 1

\* A number of hundredths of a percent in fixed notation with two decimals
\* and the percent sign.
PercentText(hundredths) ==
    Decimal(hundredths \div 100) \o "."
    \o DigitText((hundredths % 100) \div 10) \o DigitText(hundredths % 10)
    \o "%"

\* The rate with the digits after the second decimal cut off.
MatchRateTruncated(unmatched, total) ==
    PercentText((10000 * (total - unmatched)) \div total)

\* f"{1 - (unmatched / total):.2%}": the rate times 100, in fixed notation
\* with two decimals, then a percent sign.  The float 1 - unmatched/total is
\* within 2^-52 of the quotient (total - unmatched) / total; below 160
\* documents the quotient is either a dyadic number, which the float equals,
\* or further than that from every rounding boundary, so the digits are those
\* of the quotient rounded half to even.
MatchRate(unmatched, total) ==
    PercentText(RoundHalfEven(10000 * (total - unmatched), total))

\* ------------------------------------------------------------- send_emails
\* lambda value: False if pd.isna(value) or value == "nan" else bool(value)
Coerce(value) ==
    IF isna(value) \/ value = "nan" THEN False
    ELSE IF value \in {False, ""} THEN False
    ELSE True

\* `not series`: the operator asks the Series for its truth value, and
\* Series.__bool__ raises ValueError whatever the Series holds.
NotSeries(series) == "ValueError"

\* conditions: the mask over the rows of investors_df, or the exception its
\* evaluation raises.
Conditions(frame) ==
    LET negated == NotSeries([n \in 1..Len(frame) |-> frame[n].do_not_send_override])
    IN  IF negated = "ValueError" THEN "ValueError"
        ELSE [n \in 1..Len(frame) |->
                 /\ notna(frame[n].matched_k1_filename)
                 /\ frame[n].active = True
                 /\ negated[n]
                 /\ frame[n].email_status # "sent"]

\* self.sender
Sender == "me@firm.example"

\* An address that is sent to as it stands in the table.
AddressAsGiven(test_mode, email_address) == strip(email_address)

\* self.sender if self.test_mode else email_address.strip()
Address(test_mode, email_address) ==
    IF test_mode THEN Sender ELSE strip(email_address)

\* The list an investor address is appended to: the lower-cased type, cc when
\* it is none of the three.
ListOf(email_type) ==
    LET type == lower(Format(email_type))
    IN  IF type \in {"to", "cc", "bcc"} THEN type ELSE "cc"

\* The recipients of one list after the two recipient loops: the investor's
\* addresses 1 to 4 that are not nan, then the internal recipients.
RecipientList(list, emails, internal_recipients, test_mode) ==
    LET own == SelectSeq(emails, LAMBDA e :
                   Format(e.email_address) # "nan" /\ ListOf(e.email_type) = list)
        internal == SelectSeq(internal_recipients, LAMBDA r :
                        list # "to" /\ lower(r.email_type) = list)
    IN  [n \in 1..Len(own) |-> Address(test_mode, Format(own[n].email_address))]
        \o [n \in 1..Len(internal) |-> Address(test_mode, internal[n].email_address)]

\* The recipients of email_message.
Recipients(emails, internal_recipients, test_mode) ==
    [toRecipients |-> RecipientList("to", emails, internal_recipients, test_mode),
     ccRecipients |-> RecipientList("cc", emails, internal_recipients, test_mode),
     bccRecipients |-> RecipientList("bcc", emails, internal_recipients, test_mode)]

\* What requests.post gives for a row: a response with status 202, another
\* response, an exception.
Responses == {"202", "400", "exception"}

\* The email_status the try statement writes for a response.
StatusFor(response) ==
    CASE response = "202" -> "sent"
      [] response = "400" -> "fail 400: Bad Request"
      [] OTHER -> "error Connection aborted."

\* The address columns of a row, the same in every row of the tables of
\* SpecSend, and self.internal_recipients there.
RowEmails ==
    << [email_address |-> " kim@home.example ", email_type |-> "To"],
       [email_address |-> NaN, email_type |-> NaN],
       [email_address |-> "kim@work.example", email_type |-> NaN],
       [email_address |-> NaN, email_type |-> NaN] >>

Internal == << [email_address |-> "tax@firm.example", email_type |-> "cc"] >>

RECURSIVE SendLoop(_, _, _, _)
\* for index, investor in enumerate(investors_to_send_df.itertuples()), from
\* index on; todo are the places in the frame of the rows still to visit.
\* call: [email_limit, test_mode, responses, dir]; st: [frame, requests,
\* error]: investors_to_send_df seen through the frame, the requests posted,
\* the exception that left the loop.
SendLoop(todo, index, call, st) ==
    IF todo = << >> \/ st.error # "none" THEN st
    ELSE IF call.email_limit # << >> /\ index >= call.email_limit[1] THEN st
    ELSE LET n == Head(todo)
             filename == st.frame[n].matched_k1_filename
         IN  IF ~\E e \in call.dir : PathOf(e) = filename
             THEN [st EXCEPT !.error = "FileNotFoundError"]
             ELSE SendLoop(Tail(todo), index + 1, call,
                     [st EXCEPT
                        !.frame[n].email_status =
                            StatusFor(call.responses[n]),
                        !.requests = Append(@,
                            [row |-> n,
                             response |-> call.responses[n],
                             recipients |-> Recipients(RowEmails, Internal,
                                                       call.test_mode)])])

\* ------------------------------------------------------------------- state
VARIABLES
    files,          \* the entries of files/: [folder, file]
    ever_files,     \* history: the PDF entries files/ has held so far
    cache,          \* cache/k1_array_cache.pkl: [exists, items]
    cache_dir,      \* history: the content of files/ when the cache was saved
    investors,      \* investors.xlsx: sequence of rows
    unmatched_csv,  \* logs/<timestamp>_unmatched.csv of the running process
    pc,             \* "off", or the last operation of the running process
    loaded,         \* history: [cached, items, dir], what _load_cache loaded in
                    \* this process and cache_dir at that time
    k1_array,       \* self.k1_array
    opened,         \* the PDFs opened by the last extract_entities, in order
    error,          \* the exception that ended the process, or "none"
    investors_df,   \* investors_df of the last match_files_and_keys
    merged_df,      \* merged_df of the last match_files_and_keys
    match_rate,     \* [unmatched, total, text]: the two lengths the match rate
                    \* is computed from and the rate as printed, "" before
    mail,           \* the send_emails call of the running process: its
                    \* parameters, what the operator types, and what it did
    page            \* the lines of a page given to the line loop alone

vars == << files, ever_files, cache, cache_dir, investors, unmatched_csv, pc,
           loaded, k1_array, opened, error, investors_df,
           merged_df, match_rate, mail, page >>

disk == << files, ever_files, cache, cache_dir, investors >>

NothingLoaded == [cached |-> FALSE, items |-> << >>, dir |-> {}]

\* Nothing printed yet.
NoRate == [unmatched |-> 0, total |-> 0, text |-> ""]

\* The state of the output after the print of the match rate.
RateShown(unmatched, total) ==
    [unmatched |-> unmatched, total |-> total, text |-> MatchRate(unmatched, total)]

\* No send_emails call yet.  email_limit is << >> for None, << n >> for n;
\* confirmation is what the operator types when asked; table is investors.xlsx
\* as the call found it; asked, credential and requests tell what the call has
\* done: shown the prompt, obtained the access token, posted to sendMail;
\* emails are the four (address, type) pairs of the row the loop stands at;
\* accepted and phases are history: for each row of the table how many of its
\* requests the mail API has accepted and whether one of them went to the
\* row's own addresses, and the number of send phases so far.
NoMail ==
    [called |-> FALSE, email_limit |-> << >>, test_mode |-> TRUE,
     confirmation |-> "", table |-> << >>, asked |-> FALSE, credential |-> FALSE,
     requests |-> << >>, emails |-> << >>, internal_recipients |-> << >>,
     accepted |-> << >>, phases |-> 0]

\* The tables the first run may find: the first two rows of the catalogue,
\* or all of them.
Tables == {SubSeq(InvestorCatalogue, 1, 2), InvestorCatalogue}

Init ==
    /\ ever_files \in {pdfs \in SUBSET PdfEntries : Cardinality(pdfs) <= MaxFiles}
    /\ files = ever_files \cup OtherEntries
    /\ cache = [exists |-> FALSE, items |-> << >>]
    /\ cache_dir = {}
    /\ investors \in Tables
    /\ unmatched_csv = << >>
    /\ pc = "off"
    /\ loaded = NothingLoaded
    /\ k1_array = << >>
    /\ opened = << >>
    /\ error = "none"
    /\ investors_df = << >>
    /\ merged_df = << >>
    /\ match_rate = NoRate
    /\ mail = NoMail
    /\ page = << >>

\* ------------------------------------------------------------ construction
\* A test that finds every entry new.
IsNewToListing(entry, array) == TRUE

\* not any(k1["path"] == file_path for k1 in self.k1_array)
IsNew(entry, array) == ~\E n \in 1..Len(array) : array[n].path = PathOf(entry)

\* The entries of files/ for which _gather_files appends a record.
Gathered(dir, array) ==
    {e \in dir : /\ IsDir(e.folder)
                 /\ EndsWith(lower(e.file), ".pdf")
                 /\ ~Contains(lower(e.file), "managers")
                 /\ IsNew(e, array)}

\* The orders in which the two nested os.listdir loops can visit a set of
\* entries: any order of the folders, any order within a folder.
ScanOrders(entries) ==
    {order \in [1..Cardinality(entries) -> entries] :
        /\ \A i, j \in DOMAIN order : i # j => order[i] # order[j]
        /\ \A i, j, k \in DOMAIN order :
              (i < j /\ j < k /\ order[i].folder = order[k].folder)
                  => order[j].folder = order[i].folder}

\* __init__: _load_cache unless skip_cache_load, then _gather_files.
Construct(skip) ==
    /\ pc = "off"
    /\ LET from_cache == IF ~skip /\ cache.exists THEN cache.items ELSE << >>
       IN  /\ loaded' = IF ~skip /\ cache.exists
                        THEN [cached |-> TRUE, items |-> cache.items, dir |-> cache_dir]
                        ELSE NothingLoaded
           /\ \E order \in ScanOrders(Gathered(files, from_cache)) :
                 k1_array' = from_cache
                             \o [n \in 1..Len(order) |-> NewK1Info(order[n])]
    /\ pc' = "constructed"
    /\ UNCHANGED << disk, unmatched_csv, opened, error, investors_df, merged_df >>
    /\ UNCHANGED << match_rate, mail, page >>

\* ------------------------------------------------------------- operations
\* extract_entities, called first as in the control flow of the pipeline: the
\* loop, then _save_cache unless an exception escaped.
ExtractEntities ==
    /\ pc = "constructed"
    /\ LET ex == ExtractLoop(FilesToExtract(k1_array),
                             [array |-> k1_array, issuing_entity |-> Unbound,
                              receiving_entity |-> Unbound, error |-> "none",
                              opened |-> << >>],
                             files)
       IN  /\ k1_array' = ex.array
           /\ opened' = ex.opened
           /\ error' = ex.error
           /\ IF ex.error = "none"
              THEN /\ cache' = [exists |-> TRUE, items |-> ex.array]
                   /\ cache_dir' = files
                   /\ pc' = "extracted"
              ELSE /\ UNCHANGED << cache, cache_dir >>
                   /\ pc' = "crashed"
    /\ UNCHANGED << files, ever_files, investors, unmatched_csv,
                    loaded, investors_df, merged_df >>
    /\ UNCHANGED << match_rate, mail, page >>

\* match_files_and_keys, called once after extract_entities as the script does.
\* pd.DataFrame([]) has no column to sort by: with an empty k1_array
\* sort_values raises KeyError before anything is written.
MatchFilesAndKeys ==
    /\ pc = "extracted"
    /\ Len(investors) <= MaxRows
    /\ LET keyed == CreateMatchingKeys(k1_array)
           table == ReadExcel(investors)
           k1_matching_key_df == SortValues(keyed)
           merged == Reconcile(table, k1_matching_key_df)
       IN  /\ k1_array' = keyed
           /\ IF keyed = << >>
              THEN /\ error' = "KeyError"
                   /\ pc' = "crashed"
                   /\ investors_df' = table
                   /\ UNCHANGED << investors, unmatched_csv, merged_df,
                                   match_rate >>
              ELSE /\ investors_df' = table
                   /\ merged_df' = merged
                   /\ unmatched_csv' = UnmatchedFiles(k1_matching_key_df, merged)
                   /\ investors' = ToExcel(merged)
                   /\ match_rate' = RateShown(Len(UnmatchedFiles(k1_matching_key_df, merged)),
                                            Len(k1_matching_key_df))
                   /\ pc' = "matched"
                   /\ UNCHANGED error
    /\ UNCHANGED << files, ever_files, cache, cache_dir, loaded, opened >>
    /\ UNCHANGED << mail, page >>

\* The values of email_limit, and the answers of the operator to the prompt.
Limits == {<< >>, << 1 >>}
Answers == {"Y", "n"}

\* send_emails, called after match_files_and_keys as the script does.
\* self.email_limit and self.test_mode, which the constructor sets and no
\* other operation reads, are drawn here.  The evaluation of conditions
\* raises: the statements after it are not reached.
SendEmails ==
    /\ pc = "matched"
    /\ \E email_limit \in Limits, test_mode \in BOOLEAN, confirmation \in Answers :
          LET read == ReadExcel(investors)
              frame == [n \in 1..Len(read) |->
                           [read[n] EXCEPT !.active = Coerce(@),
                                           !.do_not_send_override = Coerce(@)]]
          IN  /\ Conditions(frame) = "ValueError"
              /\ mail' = [NoMail EXCEPT !.called = TRUE,
                                        !.email_limit = email_limit,
                                        !.test_mode = test_mode,
                                        !.confirmation = confirmation,
                                        !.table = investors]
              /\ error' = "ValueError"
              /\ pc' = "crashed"
    /\ UNCHANGED << disk, unmatched_csv, loaded, k1_array, opened, investors_df,
                    merged_df, match_rate, page >>

\* The process ends: its object and locals are gone, the files stay.
Exit ==
    /\ pc # "off"
    /\ pc' = "off"
    /\ loaded' = NothingLoaded
    /\ k1_array' = << >>
    /\ opened' = << >>
    /\ error' = "none"
    /\ investors_df' = << >>
    /\ merged_df' = << >>
    /\ unmatched_csv' = << >>
    /\ match_rate' = NoRate
    /\ mail' = NoMail
    /\ UNCHANGED << disk, page >>

\* Between runs the operator puts a new PDF into files/ or takes one out for
\* good.
AddFile ==
    /\ pc = "off"
    /\ Cardinality(ever_files) < MaxFiles
    /\ \E e \in PdfEntries \ ever_files :
          /\ files' = files \cup {e}
          /\ ever_files' = ever_files \cup {e}
    /\ UNCHANGED << cache, cache_dir, investors, unmatched_csv, pc,
                    loaded, k1_array, opened, error,
                    investors_df, merged_df, match_rate, mail, page >>

RemoveFile ==
    /\ pc = "off"
    /\ \E e \in PdfEntries \cap files : files' = files \ {e}
    /\ UNCHANGED ever_files
    /\ UNCHANGED << cache, cache_dir, investors, unmatched_csv, pc,
                    loaded, k1_array, opened, error,
                    investors_df, merged_df, match_rate, mail, page >>

ConstructWithCache == Construct(FALSE)
ConstructSkippingCache == Construct(TRUE)

Next ==
    \/ ConstructWithCache
    \/ ConstructSkippingCache
    \/ ExtractEntities
    \/ MatchFilesAndKeys
    \/ SendEmails
    \/ Exit
    \/ AddFile
    \/ RemoveFile

Spec == Init /\ [][Next]_vars

\* ------------------------------------------------- key normalisation inputs
\* A second specification for _create_matching_keys as a function of the
\* record's three fields: the process stands after extract_entities with one
\* record whose fields are drawn from bounded sets, the investor table holds
\* one row whose fields are a respelling of them, and match_files_and_keys
\* runs.
Alphabet == {"A", "b", " ", ".", ",", "'", "~", "-"}

RECURSIVE Texts(_)
\* The strings over Alphabet of length n or less.
Texts(n) ==
    IF n = 0 THEN {""}
    ELSE Texts(n - 1) \cup {s \o c : s \in Texts(n - 1), c \in Alphabet}

ExampleTriple == << "ACME FUND", "ACME FOREST LLC", "JOHN Q. PUBLIC" >>
BaseTriple == << "Fund A", "Elm LLC", "J. Roe" >>

\* A name os.listdir can give for a folder.
IsFolderName(s) == s \notin {"", ".", ".."}

KeyTriples ==
    {ExampleTriple}
    \cup {[BaseTriple EXCEPT ![f] = s] : f \in 1..3, s \in Texts(MaxLen)}

SwapChar(c) ==
    IF \E i \in 1..26 : CharAt(UpperCase, i) = c
    THEN CharAt(LowerCase, CHOOSE i \in 1..26 : CharAt(UpperCase, i) = c)
    ELSE IF \E i \in 1..26 : CharAt(LowerCase, i) = c
    THEN CharAt(UpperCase, CHOOSE i \in 1..26 : CharAt(LowerCase, i) = c)
    ELSE c

StopCycle == << " ", ".", ",", "'", "~" >>

RECURSIVE Respell(_, _, _)
\* Another spelling of s from position i on.  how = 1: the same text; 2: the
\* case of every letter swapped; 3: a stop character put after every
\* character; 4: every stop character replaced by the next of StopCycle.
Respell(how, s, i) ==
    IF i > Len(s) THEN ""
    ELSE LET c == CharAt(s, i)
             d == CASE how = 1 -> c
                    [] how = 2 -> SwapChar(c)
                    [] how = 3 -> c \o StopCycle[1 + (i % 5)]
                    [] how = 4 ->
                        IF \E k \in 1..5 : StopCycle[k] = c
                        THEN StopCycle[1 + ((CHOOSE k \in 1..5 : StopCycle[k] = c) % 5)]
                        ELSE c
         IN  d \o Respell(how, s, i + 1)

InitKeys ==
    \E triple \in KeyTriples, how \in 1..4 :
        LET entry == [folder |-> triple[1], file |-> "k.pdf"]
            k1_info == [NewK1Info(entry) EXCEPT !.issuing_entity = triple[2],
                                                !.receiving_entity = triple[3]]
            fields == InvestorFields("Kim", Respell(how, triple[1], 1),
                                     Respell(how, triple[2], 1),
                                     Respell(how, triple[3], 1))
        IN  /\ IsFolderName(triple[1])
            /\ ever_files = {}
            /\ files = {entry} \cup OtherEntries
            /\ cache = [exists |-> TRUE, items |-> << k1_info >>]
            /\ cache_dir = files
            /\ investors = << InvestorRow(fields, MatchingKey(fields), NaN, NaN) >>
            /\ unmatched_csv = << >>
            /\ pc = "extracted"
            /\ loaded = NothingLoaded
            /\ k1_array = << k1_info >>
            /\ opened = << PathOf(entry) >>
            /\ error = "none"
            /\ investors_df = << >>
            /\ merged_df = << >>
            /\ match_rate = NoRate
            /\ mail = NoMail
            /\ page = << >>

SpecKeys == InitKeys /\ [][MatchFilesAndKeys]_vars

\* --------------------------------------------------------------- send phases
\* A specification for the statements of send_emails after the selection, as
\* a function of the value the third operand of conditions is given: the
\* process stands in send_emails with the table read, the operand is drawn
\* from the boolean Series, and the prompt, the loop and the write-back run.
\* The phase is run again by the next process on the table and the files the
\* last one left.
SentEntries == {[folder |-> "ACME FUND", file |-> "a.pdf"],
                [folder |-> "Oak Grove", file |-> "f.pdf"]}

SendTables ==
    {<< InvestorRow(John, MatchingKey(John), "file_found", "ACME FUND/a.pdf"),
        InvestorRow(Jane, MatchingKey(Jane), "file_found", "Oak Grove/f.pdf") >>,
     << InvestorRow(Jane, MatchingKey(Jane), "fail 400: Bad Request", "Oak Grove/f.pdf"),
        InvestorRow(Janet, MatchingKey(Janet), NaN, NaN) >>}

InitSend ==
    \E table \in SendTables, pdfs \in SUBSET SentEntries :
        /\ ever_files = SentEntries
        /\ files = pdfs \cup OtherEntries
        /\ cache = [exists |-> FALSE, items |-> << >>]
        /\ cache_dir = {}
        /\ investors = table
        /\ unmatched_csv = << >>
        /\ pc = "matched"
        /\ loaded = NothingLoaded
        /\ k1_array = << >>
        /\ opened = << >>
        /\ error = "none"
        /\ investors_df = << >>
        /\ merged_df = << >>
        /\ match_rate = NoRate
        /\ mail = [NoMail EXCEPT !.accepted = [n \in 1..Len(table) |-> << >>]]
        /\ page = << >>

\* The requests of the phase the API accepted, added to the history.
Accept(accepted, requests) ==
    [n \in 1..Len(accepted) |->
        accepted[n]
        \o [k \in 1..Len(SelectSeq(requests, LAMBDA r : r.row = n /\ r.response = "202"))
              |-> SelectSeq(requests, LAMBDA r : r.row = n /\ r.response = "202")[k].recipients]]

\* send_emails from the selection on.  third is the value of the third
\* operand of conditions; responses are what requests.post gives for each row.
SendPhase ==
    /\ pc = "matched"
    /\ mail.phases < MaxPhases
    /\ \E email_limit \in Limits, test_mode \in BOOLEAN, confirmation \in Answers,
          third \in [1..Len(investors) -> BOOLEAN],
          responses \in [1..Len(investors) -> Responses] :
          LET read == ReadExcel(investors)
              frame == [n \in 1..Len(read) |->
                           [read[n] EXCEPT !.active = Coerce(@),
                                           !.do_not_send_override = Coerce(@)]]
              conditions == [n \in 1..Len(frame) |->
                                /\ notna(frame[n].matched_k1_filename)
                                /\ frame[n].active = True
                                /\ third[n]
                                /\ frame[n].email_status # "sent"]
              investors_to_send == SelectSeq([n \in 1..Len(frame) |-> n],
                                             LAMBDA n : conditions[n])
              st == SendLoop(investors_to_send, 0,
                             [email_limit |-> email_limit, test_mode |-> test_mode,
                              responses |-> responses, dir |-> files],
                             [frame |-> frame, requests |-> << >>, error |-> "none"])
              called == [mail EXCEPT !.called = TRUE, !.email_limit = email_limit,
                                     !.test_mode = test_mode,
                                     !.confirmation = confirmation,
                                     !.table = investors, !.asked = TRUE,
                                     !.phases = @ + 1]
          IN  IF lower(confirmation) # "y"
              THEN /\ mail' = called
                   /\ pc' = "sent"
                   /\ UNCHANGED << investors, error >>
              ELSE /\ mail' = [called EXCEPT !.credential = TRUE,
                                             !.requests = st.requests,
                                             !.accepted = Accept(@, st.requests)]
                   /\ IF st.error = "none"
                      THEN /\ investors' = st.frame
                           /\ pc' = "sent"
                           /\ UNCHANGED error
                      ELSE /\ error' = st.error
                           /\ pc' = "crashed"
                           /\ UNCHANGED investors
    /\ UNCHANGED << files, ever_files, cache, cache_dir, unmatched_csv, loaded,
                    k1_array, opened, investors_df, merged_df, match_rate, page >>

\* The process ends and the next one comes to its send phase: the table and
\* the files stay, and so does what the API has accepted.
NextPhase ==
    /\ pc \in {"sent", "crashed"}
    /\ pc' = "matched"
    /\ error' = "none"
    /\ mail' = [NoMail EXCEPT !.accepted = mail.accepted, !.phases = mail.phases]
    /\ UNCHANGED << disk, unmatched_csv, loaded, k1_array, opened, investors_df,
                    merged_df, match_rate, page >>

NextSend == SendPhase \/ NextPhase

SpecSend == InitSend /\ [][NextSend]_vars

\* ------------------------------------------------------------ request inputs
\* A specification for the recipients of a request as a function of the row
\* and the parameters: send_emails stands in its loop at a row whose four
\* (address, type) pairs are drawn from bounded sets, and builds the request.
Pairs ==
    {[email_address |-> NaN, email_type |-> NaN],
     [email_address |-> " kim@home.example ", email_type |-> "To"],
     [email_address |-> "kim@work.example", email_type |-> "cc"],
     [email_address |-> "kim@club.example", email_type |-> "BCC"],
     [email_address |-> "kim@mail.example", email_type |-> NaN]}

InternalRecipients ==
    {<< [email_address |-> "tax@firm.example", email_type |-> "cc"] >>,
     << [email_address |-> " tax@firm.example", email_type |-> "CC"],
        [email_address |-> "audit@firm.example", email_type |-> "bcc"] >>}

InitRequest ==
    \E emails \in [1..4 -> Pairs], internal_recipients \in InternalRecipients,
       test_mode \in BOOLEAN :
        /\ ever_files = {}
        /\ files = OtherEntries
        /\ cache = [exists |-> FALSE, items |-> << >>]
        /\ cache_dir = {}
        /\ investors = << >>
        /\ unmatched_csv = << >>
        /\ pc = "matched"
        /\ loaded = NothingLoaded
        /\ k1_array = << >>
        /\ opened = << >>
        /\ error = "none"
        /\ investors_df = << >>
        /\ merged_df = << >>
        /\ match_rate = NoRate
        /\ mail = [NoMail EXCEPT !.called = TRUE, !.test_mode = test_mode,
                                 !.confirmation = "y", !.asked = TRUE,
                                 !.credential = TRUE, !.emails = emails,
                                 !.internal_recipients = internal_recipients]
        /\ page = << >>

\* The two recipient loops and the message of one iteration of the send loop.
BuildRequest ==
    /\ mail.called
    /\ mail.emails # << >>
    /\ mail.requests = << >>
    /\ mail' = [mail EXCEPT !.requests =
                    << Recipients(mail.emails, mail.internal_recipients,
                                  mail.test_mode) >>]
    /\ UNCHANGED << disk, unmatched_csv, pc, loaded, k1_array, opened, error,
                    investors_df, merged_df, match_rate, page >>

SpecRequest == InitRequest /\ [][BuildRequest]_vars

\* ------------------------------------------------------ unresolved key inputs
\* A specification for the key of a record with an entity left None: the
\* process stands after extract_entities with one such record, the investor
\* table holds one row whose three fields are texts, the text in the place of
\* a None drawn from bounded sets, and match_files_and_keys runs.
NoneParts == {"No", "ne", "N", "."}

RECURSIVE NoneTexts(_)
\* The texts of n parts or less.
NoneTexts(n) ==
    IF n = 0 THEN {""}
    ELSE NoneTexts(n - 1) \cup {s \o part : s \in NoneTexts(n - 1), part \in NoneParts}

\* The entity fields extract_entities can leave: both None (no marker page),
\* or one of them None (one header only on the marker page).
UnresolvedPairs == {<< None, None >>, << "Elm LLC", None >>, << None, "J. Roe" >>}

NullEntry == [folder |-> "Oak Grove", file |-> "n.pdf"]

InitNull ==
    \E pair \in UnresolvedPairs, text \in NoneTexts(MaxParts) :
        LET k1_info == [NewK1Info(NullEntry) EXCEPT !.issuing_entity = pair[1],
                                                    !.receiving_entity = pair[2]]
            fields == InvestorFields("Kim", "Oak Grove",
                                     IF pair[1] = None THEN text ELSE pair[1],
                                     IF pair[2] = None THEN text ELSE pair[2])
        IN  /\ ever_files = {}
            /\ files = {NullEntry} \cup OtherEntries
            /\ cache = [exists |-> TRUE, items |-> << k1_info >>]
            /\ cache_dir = files
            /\ investors = << InvestorRow(fields, MatchingKey(fields), NaN, NaN) >>
            /\ unmatched_csv = << >>
            /\ pc = "extracted"
            /\ loaded = NothingLoaded
            /\ k1_array = << k1_info >>
            /\ opened = << >>
            /\ error = "none"
            /\ investors_df = << >>
            /\ merged_df = << >>
            /\ match_rate = NoRate
            /\ mail = NoMail
            /\ page = << >>

SpecNull == InitNull /\ [][MatchFilesAndKeys]_vars

\* ------------------------------------------------------- receiving line inputs
\* A specification for the scan of a marker page as a function of its lines:
\* the process stands in extract_entities at the page of its only document;
\* the page holds the Part II header and, three lines below it, a line drawn
\* from bounded sets, and the line loop runs.
Fragments ==
    {"1021 38th Street Investment", "1021 38th street", "38TH STREET",
     "Benedikt Road", "St.", "street", "Road", "lane", "AVE", "avenue",
     "Trust", "Investment", "1021 "}

RECURSIVE Joined(_)
\* The lines of n fragments or less, each two a space apart.
Joined(n) ==
    IF n = 0 THEN {""}
    ELSE Joined(n - 1)
         \cup {IF s = "" THEN f ELSE s \o " " \o f : s \in Joined(n - 1), f \in Fragments}

\* The lines that may stand above the drawn one.
LinesAbove == {"JANE ROE", "  Roe Trust "}

RulesEntry == [folder |-> "Oak Grove", file |-> "r.pdf"]

InitRules ==
    \E naive \in Joined(MaxFragments), above \in LinesAbove :
        /\ ever_files = {}
        /\ files = {RulesEntry} \cup OtherEntries
        /\ cache = [exists |-> FALSE, items |-> << >>]
        /\ cache_dir = {}
        /\ investors = << >>
        /\ unmatched_csv = << >>
        /\ pc = "constructed"
        /\ loaded = NothingLoaded
        /\ k1_array = << NewK1Info(RulesEntry) >>
        /\ opened = << PathOf(RulesEntry) >>
        /\ error = "none"
        /\ investors_df = << >>
        /\ merged_df = << >>
        /\ match_rate = NoRate
        /\ mail = NoMail
        /\ page = << FormMarker, PartnerAnchor, "E", above, naive >>

\* The page loop of extract_entities on the one page, for k1_array[1].
ScanPage ==
    /\ pc = "constructed"
    /\ page # << >>
    /\ LET st == PageLoop(<< page >>,
                          [k1_info |-> [issuing_entity |-> Unbound,
                                        receiving_entity |-> Unbound],
                           issuing_entity |-> Unbound, receiving_entity |-> Unbound,
                           error |-> "none"])
       IN  /\ k1_array' = [k1_array EXCEPT
                  ![1].issuing_entity = Assigned(st.k1_info.issuing_entity, @),
                  ![1].receiving_entity = Assigned(st.k1_info.receiving_entity, @)]
           /\ error' = st.error
           /\ pc' = IF st.error = "none" THEN "scanned" ELSE "crashed"
    /\ UNCHANGED << disk, unmatched_csv, loaded, opened, investors_df, merged_df,
                    match_rate, mail, page >>

SpecRules == InitRules /\ [][ScanPage]_vars

\* --------------------------------------------------------- match rate inputs
\* A third specification for the match rate as a function of the two lengths
\* it is computed from: match_files_and_keys stands before its print of the
\* rate with the lengths drawn from bounded sets, and prints.
InitRate ==
    \E total \in 1..MaxDocs, unmatched \in 0..MaxDocs :
        /\ unmatched <= total
        /\ ever_files = {}
        /\ files = OtherEntries
        /\ cache = [exists |-> FALSE, items |-> << >>]
        /\ cache_dir = {}
        /\ investors = << >>
        /\ unmatched_csv = << >>
        /\ pc = "extracted"
        /\ loaded = NothingLoaded
        /\ k1_array = << >>
        /\ opened = << >>
        /\ error = "none"
        /\ investors_df = << >>
        /\ merged_df = << >>
        /\ match_rate = [unmatched |-> unmatched, total |-> total, text |-> ""]
        /\ mail = NoMail
        /\ page = << >>

\* The print of the match rate.
ReportMatchRate ==
    /\ pc = "extracted"
    /\ match_rate.text = ""
    /\ match_rate.total > 0
    /\ match_rate' = RateShown(match_rate.unmatched, match_rate.total)
    /\ UNCHANGED << disk, unmatched_csv, pc, loaded, k1_array, opened, error,
                    investors_df, merged_df, mail, page >>

SpecRate == InitRate /\ [][ReportMatchRate]_vars

\* --------------------------------------------------------------- properties
\* The characters of s in order.
CharSeq(s) == [j \in 1..Len(s) |-> CharAt(s, j)]

IsStop(c) == c \in {" ", ".", ",", "'", "~"}

\* c lower-cased: a capital letter gives the small letter at its place in the
\* alphabet, any other character gives itself.
Lowered(c) ==
    IF \E i \in 1..26 : CharAt(UpperCase, i) = c
    THEN CharAt(LowerCase, CHOOSE i \in 1..26 : CharAt(UpperCase, i) = c)
    ELSE c

\* key is raw lower-cased with the stop characters removed and nothing else
\* changed.
IsNormalised(raw, key) ==
    LET kept == SelectSeq(CharSeq(raw), LAMBDA c : ~IsStop(c))
    IN  /\ Len(key) = Len(kept)
        /\ \A j \in 1..Len(kept) : CharAt(key, j) = Lowered(kept[j])

\* C1: after _create_matching_keys the key of every record whose three
\* fields are strings is group_label # issuing_entity # receiving_entity
\* lower-cased, with every space, period, comma, straight and curly
\* apostrophe removed and nothing else changed; the key of ('ACME FUND',
\* 'ACME FOREST LLC', 'JOHN Q. PUBLIC') is
\* 'acmefund#acmeforestllc#johnqpublic'.
C1_KeyIsNormalisedTriple ==
    pc = "matched" =>
        \A n \in 1..Len(k1_array) :
            LET d == k1_array[n]
            IN  /\ IsNormalised(d.investment_name \o "#" \o d.issuing_entity
                                \o "#" \o d.receiving_entity,
                                d.k1_matching_key)
                /\ << d.investment_name, d.issuing_entity, d.receiving_entity >>
                       = ExampleTriple
                   => d.k1_matching_key = "acmefund#acmeforestllc#johnqpublic"

\* A record with a capital letter and both apostrophes in a field has got
\* its key.
C1_Witness ==
    /\ pc = "matched"
    /\ \E n \in 1..Len(k1_array) :
          /\ k1_array[n].receiving_entity = "A'~"
          /\ k1_array[n].k1_matching_key = "funda#elmllc#a"

SameLetter(c, d) ==
    \/ c = d
    \/ \E i \in 1..26 : {c, d} = {CharAt(UpperCase, i), CharAt(LowerCase, i)}

RECURSIVE DifferOnlyInCaseAndStops(_, _)
\* s and t differ only in letter case and in occurrences of stop characters.
DifferOnlyInCaseAndStops(s, t) ==
    IF s # "" /\ IsStop(CharAt(s, 1)) THEN DifferOnlyInCaseAndStops(Rest(s), t)
    ELSE IF t # "" /\ IsStop(CharAt(t, 1)) THEN DifferOnlyInCaseAndStops(s, Rest(t))
    ELSE IF s = "" \/ t = "" THEN s = t
    ELSE /\ SameLetter(CharAt(s, 1), CharAt(t, 1))
         /\ DifferOnlyInCaseAndStops(Rest(s), Rest(t))

\* Document d and investor row r: the three fields differ only so, and the
\* key of r was built by the function that builds the key of d.
SameTripleRespelled(d, r) ==
    /\ DifferOnlyInCaseAndStops(d.investment_name, r.investment_name)
    /\ DifferOnlyInCaseAndStops(d.issuing_entity, r.issuing_entity)
    /\ DifferOnlyInCaseAndStops(d.receiving_entity, r.receiving_entity)
    /\ r.k1_matching_key = MatchingKey(r)

\* C2: a document and an investor row whose three fields differ only in
\* letter case and in occurrences of space, period, comma and apostrophes,
\* the row's key built by the same function, have the same key and are joined
\* by match_files_and_keys: a row of the output holds the investor row with
\* the document's path.
C2_RespelledTripleIsJoined ==
    pc = "matched" =>
        \A n \in 1..Len(k1_array), i \in 1..Len(investors_df) :
            SameTripleRespelled(k1_array[n], investors_df[i]) =>
                /\ k1_array[n].k1_matching_key = investors_df[i].k1_matching_key
                /\ \E m \in 1..Len(merged_df) :
                      /\ merged_df[m].left = i
                      /\ merged_df[m].matched_k1_filename = k1_array[n].path

\* A document is joined to a row that spells its fields in the other case
\* and with other stop characters.
C2_Witness ==
    /\ pc = "matched"
    /\ \E n \in 1..Len(k1_array), i \in 1..Len(investors_df) :
          /\ SameTripleRespelled(k1_array[n], investors_df[i])
          /\ k1_array[n].issuing_entity = "A.b"
          /\ investors_df[i].issuing_entity = "a.B"
          /\ \E m \in 1..Len(merged_df) :
                /\ merged_df[m].left = i
                /\ merged_df[m].matched_k1_filename = k1_array[n].path

\* The status investors_df holds for the investor row of merged_df[m].
StatusBefore(m) == investors_df[merged_df[m].left].email_status

\* C3: the status write-back of match_files_and_keys sets a row's
\* email_status to 'file_found' only if the row has a matched filename and its
\* status was unset, and leaves every non-empty status as it was: 'sent' stays
\* 'sent', and a matched row with empty status becomes 'file_found'; the
\* table written to investors.xlsx holds these statuses.
C3_StatusWriteBackKeepsStatus ==
    pc = "matched" =>
        /\ Len(investors) = Len(merged_df)
        /\ \A m \in 1..Len(merged_df) :
              LET matched == notna(merged_df[m].matched_k1_filename)
                  after == merged_df[m].email_status
              IN  /\ investors[m].email_status = after
                  /\ notna(StatusBefore(m)) => after = StatusBefore(m)
                  /\ StatusBefore(m) = "sent" => after = "sent"
                  /\ (matched /\ isna(StatusBefore(m))) => after = "file_found"
                  /\ (~matched /\ isna(StatusBefore(m))) => isna(after)

\* One reconciliation in which a matched row marked 'sent' stays 'sent', a
\* matched row with another status keeps it and a matched row without status
\* becomes 'file_found'.
C3_Witness ==
    /\ pc = "matched"
    /\ \E m \in 1..Len(merged_df) :
          /\ notna(merged_df[m].matched_k1_filename)
          /\ StatusBefore(m) = "sent"
          /\ investors[m].email_status = "sent"
    /\ \E m \in 1..Len(merged_df) :
          /\ notna(merged_df[m].matched_k1_filename)
          /\ StatusBefore(m) = "fail 400: Bad Request"
          /\ investors[m].email_status = "fail 400: Bad Request"
    /\ \E m \in 1..Len(merged_df) :
          /\ notna(merged_df[m].matched_k1_filename)
          /\ isna(StatusBefore(m))
          /\ investors[m].email_status = "file_found"

\* The records of k1_array with the key of investors_df[i].
DocsOf(i) ==
    {n \in 1..Len(k1_array) :
        k1_array[n].k1_matching_key = investors_df[i].k1_matching_key}

\* The rows of merged_df that come from investors_df[i].
RowsOf(i) == {m \in 1..Len(merged_df) : merged_df[m].left = i}

\* C4: merged_df is the left equality join of the investor table with the
\* documents on the matching key: an investor row with no equal-keyed
\* document appears once with an empty matched filename; for an investor row
\* and every document with its key there is a row holding the investor row
\* with the document's path, one for each such document, so two documents
\* with the same key give two matched rows.
C4_LeftEqualityJoin ==
    pc = "matched" =>
        /\ \A m \in 1..Len(merged_df) :
              /\ merged_df[m].left \in 1..Len(investors_df)
              /\ merged_df[m].first_name = investors_df[merged_df[m].left].first_name
              /\ merged_df[m].k1_matching_key
                     = investors_df[merged_df[m].left].k1_matching_key
              /\ investors[m].matched_k1_filename = merged_df[m].matched_k1_filename
        /\ \A i \in 1..Len(investors_df) :
              IF DocsOf(i) = {}
              THEN /\ Cardinality(RowsOf(i)) = 1
                   /\ \A m \in RowsOf(i) : isna(merged_df[m].matched_k1_filename)
              ELSE /\ Cardinality(RowsOf(i)) = Cardinality(DocsOf(i))
                   /\ \A n \in DocsOf(i) : \E m \in RowsOf(i) :
                         merged_df[m].matched_k1_filename = k1_array[n].path
                   /\ \A m \in RowsOf(i) : \E n \in DocsOf(i) :
                         merged_df[m].matched_k1_filename = k1_array[n].path

\* Two documents have the key of one investor row, which appears twice, each
\* time with one of the paths; another investor row has no document and
\* appears once without filename.
C4_Witness ==
    /\ pc = "matched"
    /\ \E i \in 1..Len(investors_df) :
          /\ Cardinality(DocsOf(i)) = 2
          /\ \E m1, m2 \in RowsOf(i) :
                merged_df[m1].matched_k1_filename # merged_df[m2].matched_k1_filename
    /\ \E i \in 1..Len(investors_df) :
          /\ DocsOf(i) = {}
          /\ \E m \in RowsOf(i) : isna(merged_df[m].matched_k1_filename)

\* The records of k1_array whose key is the key of no investor row.
UnmatchedDocs ==
    {n \in 1..Len(k1_array) :
        \A i \in 1..Len(investors_df) :
            investors_df[i].k1_matching_key # k1_array[n].k1_matching_key}

\* The records of k1_array joined to an investor row.
JoinedDocs ==
    {n \in 1..Len(k1_array) :
        \E m \in 1..Len(merged_df) :
            merged_df[m].matched_k1_filename = k1_array[n].path}

\* Row a does not come after row b: group label, then receiving entity,
\* texts in code point order and missing values last.
NotAfter(a, b) ==
    LET before(x, y) == notna(x) /\ (isna(y) \/ StrLess(x, y))
        same(x, y) == (isna(x) /\ isna(y)) \/ x = y
    IN  \/ before(a.investment_name, b.investment_name)
        \/ /\ same(a.investment_name, b.investment_name)
           /\ \/ before(a.receiving_entity, b.receiving_entity)
              \/ same(a.receiving_entity, b.receiving_entity)

\* C5: the unmatched report holds exactly the documents whose key is the key
\* of no investor row, each once; every document is either joined to an
\* investor row or listed, never both; the report is in non-decreasing order
\* of group label, then receiving entity.
C5_UnmatchedReport ==
    pc = "matched" =>
        /\ Len(unmatched_csv) = Cardinality(UnmatchedDocs)
        /\ \A n \in 1..Len(k1_array) :
              /\ n \in UnmatchedDocs
                     <=> \E u \in 1..Len(unmatched_csv) : unmatched_csv[u] = k1_array[n]
              /\ n \in UnmatchedDocs <=> n \notin JoinedDocs
        /\ \A u, v \in 1..Len(unmatched_csv) :
              u < v => NotAfter(unmatched_csv[u], unmatched_csv[v])

\* Two documents are listed, in the other order than k1_array holds them.
C5_Witness ==
    /\ pc = "matched"
    /\ Len(unmatched_csv) = 2
    /\ Len(k1_array) = 2
    /\ unmatched_csv[1] = k1_array[2]
    /\ unmatched_csv[2] = k1_array[1]

\* Path and entity values of the records of a collection, in order.
Collection(array) ==
    [n \in 1..Len(array) |->
        << array[n].path, array[n].issuing_entity, array[n].receiving_entity >>]

\* The process loaded the cache, and files/ is as it was when the pass that
\* saved the cache ran.
SecondPass == loaded.cached /\ loaded.dir = files

\* C6: with the cache file intact and files/ unchanged, a second run of the
\* discovery and extraction pass leaves the collection as the first pass
\* saved it: the same paths, each once, with the same entity values, in
\* k1_array after _gather_files and after extract_entities, and in the cache.
C6_SecondPassIsIdempotent ==
    (pc # "off" /\ SecondPass) =>
        /\ Collection(k1_array) = Collection(loaded.items)
        /\ Collection(cache.items) = Collection(loaded.items)
        /\ \A m, n \in 1..Len(k1_array) :
              k1_array[m].path = k1_array[n].path => m = n

\* A second pass has run over a collection of two documents and has saved
\* the cache.
C6_Witness ==
    /\ pc = "extracted"
    /\ SecondPass
    /\ Len(loaded.items) = 2
    /\ Collection(k1_array) = Collection(loaded.items)
    /\ Collection(cache.items) = Collection(loaded.items)

\* The records the cache gave with an entity that is not null.
Resolved ==
    {n \in 1..Len(loaded.items) :
        \/ notna(loaded.items[n].issuing_entity)
        \/ notna(loaded.items[n].receiving_entity)}

\* C7: in one run of extract_entities no document is opened twice, and a
\* document loaded from the cache with non-null entities is not opened: its
\* two entity fields are after the pass what the cache gave.
C7_OneAttemptNoneForResolved ==
    /\ \A m, n \in 1..Len(opened) : opened[m] = opened[n] => m = n
    /\ \A n \in Resolved :
          /\ n <= Len(k1_array)
          /\ k1_array[n].path = loaded.items[n].path
          /\ \A m \in 1..Len(opened) : opened[m] # k1_array[n].path
          /\ k1_array[n].issuing_entity = loaded.items[n].issuing_entity
          /\ k1_array[n].receiving_entity = loaded.items[n].receiving_entity

\* extract_entities has opened a new document and has passed over one the
\* cache gave with its entities.
C7_Witness ==
    /\ pc = "extracted"
    /\ opened # << >>
    /\ \E n \in Resolved :
          /\ notna(loaded.items[n].issuing_entity)
          /\ notna(loaded.items[n].receiving_entity)
          /\ \A m \in 1..Len(opened) : opened[m] # k1_array[n].path

\* The pages of the PDF at files/<path>.
PagesOf(path) == PdfCatalogue[PdfIndex(path)].pages

\* No page of the document holds the form marker.
NoMarkerPage(path) == \A p \in 1..Len(PagesOf(path)) : ~HasMarker(PagesOf(path)[p])

\* An exception raised while the n-th opened document was scanned ended the
\* pass.
RaisedAt(n) ==
    /\ n = Len(opened)
    /\ pc = "crashed"
    /\ error \in {"IndexError", "UnboundLocalError"}

\* The record of the document at path.
RecordOf(path) == k1_array[CHOOSE n \in 1..Len(k1_array) : k1_array[n].path = path]

\* C8: when extract_entities opens a document none of whose pages holds the
\* form marker, no error is raised at it and both its entity fields stay
\* null, wherever it stands in the pass, first included.
C8_NoMarkerRaisesNothing ==
    \A n \in 1..Len(opened) :
        NoMarkerPage(opened[n]) =>
            /\ ~RaisedAt(n)
            /\ RecordOf(opened[n]).issuing_entity = None
            /\ RecordOf(opened[n]).receiving_entity = None

\* The marker page of the document has an anchor line with no line three
\* lines below it.
AnchorNearEnd(path) ==
    \E p \in 1..Len(PagesOf(path)) :
        /\ HasMarker(PagesOf(path)[p])
        /\ \A q \in 1..(p - 1) : ~HasMarker(PagesOf(path)[q])
        /\ \E k \in 1..Len(PagesOf(path)[p]) :
              /\ \/ Contains(PagesOf(path)[p][k], PartnershipAnchor)
                 \/ Contains(PagesOf(path)[p][k], PartnerAnchor)
              /\ k + 3 > Len(PagesOf(path)[p])

\* C9: when the marker page of a document has an anchor line fewer than
\* three lines before the end of the page, no exception escapes that
\* document: the pass goes on and saves the cache.
C9_ShortPageRaisesNothing ==
    \A n \in 1..Len(opened) : AnchorNearEnd(opened[n]) => ~RaisedAt(n)

\* Exactly one of the two entity fields of the record is set.
Partial(k1_info) == isna(k1_info.issuing_entity) # isna(k1_info.receiving_entity)

\* C10: no record of the collection or of the cache has exactly one of
\* issuing_entity and receiving_entity set.
C10_NoPartialRecord ==
    /\ \A n \in 1..Len(k1_array) : ~Partial(k1_array[n])
    /\ \A n \in 1..Len(cache.items) : ~Partial(cache.items[n])

\* The digit a character stands for.
DigitValue(c) == CHOOSE d \in 0..9 : CharAt(Digits, d + 1) = c

IsDigits(s) == s # "" /\ Chars(s) \subseteq Chars(Digits)

RECURSIVE NumberOf(_)
\* The number a string of digits stands for.
NumberOf(s) ==
    IF s = "" THEN 0
    ELSE 10 * NumberOf(SubSeq(s, 1, Len(s) - 1)) + DigitValue(CharAt(s, Len(s)))

\* text is a number with two decimals and a percent sign.
IsPercentText(text) ==
    /\ Len(text) >= 5
    /\ CharAt(text, Len(text)) = "%"
    /\ CharAt(text, Len(text) - 3) = "."
    /\ IsDigits(SubSeq(text, 1, Len(text) - 4))
    /\ IsDigits(SubSeq(text, Len(text) - 2, Len(text) - 1))
    /\ (Len(text) > 5 => CharAt(text, 1) # "0")

\* The hundredths of a percent a percent text shows.
HundredthsOf(text) ==
    100 * NumberOf(SubSeq(text, 1, Len(text) - 4))
    + NumberOf(SubSeq(text, Len(text) - 2, Len(text) - 1))

Distance(a, b) == IF a < b THEN b - a ELSE a - b

\* C18: the printed match rate is 1 - unmatched/total as a percentage with two
\* decimals: a percent text whose value is within half a hundredth of a
\* percent of the exact rate, for every unmatched count from 0 to total;
\* 7 unmatched of 50 print 86.00%; and the print raises nothing.
C18_MatchRateIsPercentage ==
    match_rate.text # "" =>
        /\ IsPercentText(match_rate.text)
        /\ 2 * Distance(HundredthsOf(match_rate.text) * match_rate.total,
                        10000 * (match_rate.total - match_rate.unmatched))
              <= match_rate.total
        /\ (match_rate.unmatched = 7 /\ match_rate.total = 50
               => match_rate.text = "86.00%")
        /\ error = "none"
        /\ pc # "crashed"

C18_Witness ==
    /\ match_rate = [unmatched |-> 1, total |-> 3, text |-> "66.67%"]
    /\ pc = "extracted"

\* The line three lines below the Part II header of the page, and the line
\* above it, both stripped.
NaiveLine == strip(page[5])
AboveLine == strip(page[4])

\* The rules whose pattern matches the lower-cased line.
Matching == {n \in 1..10 : Search(receiving_entity_regexp[n].words, lower(NaiveLine))}

\* Rule k matches and no rule listed before it does.
FirstIs(k) == k \in Matching /\ \A m \in Matching : k <= m

Scanned == pc = "scanned" /\ page # << >>

Kept == k1_array[1].receiving_entity = NaiveLine
MovedUp == k1_array[1].receiving_entity = AboveLine

\* C11: the receiving entity is resolved by first match over the rule list:
\* the first pattern, in list order, that matches the lower-cased line decides
\* alone whether the stored value is the line or the line above; with no match
\* the line is stored; a line with the whole word street that matches no
\* earlier rule gives the line above.
C11_FirstMatchDecides ==
    Scanned =>
        /\ \A k \in 1..10 : FirstIs(k) =>
              IF receiving_entity_regexp[k].up THEN MovedUp ELSE Kept
        /\ Matching = {} => Kept
        /\ FirstIs(6) => MovedUp

\* A line that matches a keep rule first and a move-up rule after it.
C11_Witness ==
    /\ Scanned
    /\ FirstIs(3)
    /\ 6 \in Matching
    /\ Kept
    /\ ~MovedUp

\* The lower-cased line holds the words, whole and a run of blanks apart.
Has(words) == Search(words, lower(NaiveLine))

Street1021Investment == << "1021", "38th", "street", "investment" >>
Street1021 == << "1021", "38th", "street" >>
Street38th == << "38th", "street" >>
BenediktRoad == << "benedikt", "road" >>
BareWords == {"st", "street", "road", "lane", "ave", "avenue"}

\* Every line that pattern i matches, pattern j matches: the words of j stand
\* side by side among the words of i.
Implies(i, j) ==
    LET wi == receiving_entity_regexp[i].words
        wj == receiving_entity_regexp[j].words
    IN  \E o \in 0..(Len(wi) - Len(wj)) : SubSeq(wi, o + 1, o + Len(wj)) = wj

\* Every more specific pattern stands before every broader pattern it implies
\* whose instruction differs.
SpecificFirst ==
    \A i, j \in 1..Len(receiving_entity_regexp) :
        (/\ i # j
         /\ Implies(i, j)
         /\ receiving_entity_regexp[i].up # receiving_entity_regexp[j].up) => i < j

\* The cases of the rule order that hold for every line.
RuleOrderCases ==
    /\ SpecificFirst
    /\ Has(Street1021Investment) => Kept
    /\ Has(Street1021) /\ ~Has(Street1021Investment) => MovedUp
    /\ Has(Street38th) /\ ~Has(Street1021) => Kept
    /\ ((\E w \in BareWords : Has(<< w >>))
          /\ ~Has(Street38th) /\ ~Has(BenediktRoad)) => MovedUp

\* C19 as stated: the rule list stands specific before broad, so that a line
\* with 1021 38th street investment is kept, one with 1021 38th street not
\* followed by investment gives the line above, one with 38th street not
\* preceded by 1021 is kept, every line with benedikt road is kept, and a line
\* with only a bare st, street, road, lane, ave or avenue gives the line above.
C19_RuleOrderAsStated ==
    Scanned =>
        /\ RuleOrderCases
        /\ Has(BenediktRoad) => Kept

\* C19, amended: as stated, but a line with benedikt road is kept unless it
\* also holds 1021 38th street not followed by investment.
C19_RuleOrder ==
    Scanned =>
        /\ RuleOrderCases
        /\ (Has(BenediktRoad)
              /\ (Has(Street1021) => Has(Street1021Investment))) => Kept

\* A line with benedikt road and a bare word is kept.
C19_Witness ==
    /\ Scanned
    /\ Has(BenediktRoad)
    /\ Has(<< "st" >>)
    /\ ~Has(Street1021)
    /\ Kept
    /\ ~MovedUp

\* The record has an entity field left None.
Unresolved(k1_info) == k1_info.issuing_entity = None \/ k1_info.receiving_entity = None

\* The three fields of the investor row are texts.
FromThreeTexts(row) ==
    /\ notna(row.investment_name)
    /\ notna(row.issuing_entity)
    /\ notna(row.receiving_entity)

\* The text after the last # of a key, and the text between the two last.
RECURSIVE LastSegment(_)
LastSegment(key) ==
    IF key = "" \/ CharAt(key, Len(key)) = "#" THEN ""
    ELSE LastSegment(SubSeq(key, 1, Len(key) - 1)) \o CharAt(key, Len(key))

MiddleSegment(key) ==
    LastSegment(SubSeq(key, 1, Len(key) - Len(LastSegment(key)) - 1))

\* match_files_and_keys has run to its end or to its exception.
MatchRan == pc = "matched" \/ (pc = "crashed" /\ error = "KeyError")

\* C12: a record with issuing_entity or receiving_entity None gets a key with
\* the segment none in its place; reconciliation joins it to no investor row
\* whose key the same normaliser built from three texts, lists it in the
\* unmatched report, and does not fail.
C12_UnresolvedNeverJoined ==
    \A n \in 1..Len(k1_array) :
        (MatchRan /\ Unresolved(k1_array[n])) =>
            /\ pc = "matched"
            /\ k1_array[n].issuing_entity = None
                  => MiddleSegment(k1_array[n].k1_matching_key) = "none"
            /\ k1_array[n].receiving_entity = None
                  => LastSegment(k1_array[n].k1_matching_key) = "none"
            /\ \A m \in 1..Len(merged_df) :
                  (/\ FromThreeTexts(merged_df[m])
                   /\ merged_df[m].k1_matching_key = MatchingKey(merged_df[m]))
                      => merged_df[m].matched_k1_filename # k1_array[n].path
            /\ \E u \in 1..Len(unmatched_csv) : unmatched_csv[u].path = k1_array[n].path

\* The collection holds a record of the same path with the entities the
\* record had resolved.
KeptIn(items, k1_info) ==
    \E m \in 1..Len(items) :
        /\ items[m].path = k1_info.path
        /\ k1_info.issuing_entity # None
              => items[m].issuing_entity = k1_info.issuing_entity
        /\ k1_info.receiving_entity # None
              => items[m].receiving_entity = k1_info.receiving_entity

\* C17: records are only accumulated: every record of the persisted cache is
\* still in the cache after any step of any run, with its resolved entities,
\* whatever the flags of the run and whether or not its file is still in
\* files/.
C17_CacheOnlyGrows ==
    [][\A n \in 1..Len(cache.items) : KeptIn(cache'.items, cache.items[n])]_vars

\* Every address a request is sent to.
AddressesOf(request) ==
    {request.toRecipients[n] : n \in 1..Len(request.toRecipients)}
    \cup {request.ccRecipients[n] : n \in 1..Len(request.ccRecipients)}
    \cup {request.bccRecipients[n] : n \in 1..Len(request.bccRecipients)}

\* C15: in test mode every recipient address of every request, to, cc and
\* bcc, of the investor and internal, is the sender address.
C15_TestModeSendsToSender ==
    mail.test_mode =>
        \A n \in 1..Len(mail.requests) : AddressesOf(mail.requests[n]) \subseteq {Sender}

\* A request in test mode with recipients in each of the three lists, the
\* investor's and internal ones.
C15_Witness ==
    /\ mail.test_mode
    /\ Len(mail.requests) = 1
    /\ Len(mail.internal_recipients) = 2
    /\ mail.requests[1].toRecipients # << >>
    /\ Len(mail.requests[1].ccRecipients) > 1
    /\ Len(mail.requests[1].bccRecipients) > 1

\* A row of the table the call read is one to send to: it has a matched
\* file, active is true, the override is false or blank, the status is not
\* sent.
Eligible(row) ==
    /\ notna(ReadCell(row.matched_k1_filename))
    /\ Coerce(ReadCell(row.active)) = True
    /\ Coerce(ReadCell(row.do_not_send_override)) = False
    /\ ReadCell(row.email_status) # "sent"

EligibleRows == {n \in 1..Len(mail.table) : Eligible(mail.table[n])}

\* The operator answers y, in either case.
Confirmed == lower(mail.confirmation) = "y"

\* The requests a confirmed call is to attempt: one for each eligible row,
\* email_limit at most.
ToAttempt ==
    IF mail.email_limit = << >> \/ mail.email_limit[1] > Cardinality(EligibleRows)
    THEN Cardinality(EligibleRows)
    ELSE mail.email_limit[1]

\* The status of a row that was attempted.
IsOutcome(email_status) ==
    \/ email_status = "sent"
    \/ (Len(email_status) >= 5 /\ SubSeq(email_status, 1, 5) = "fail ")
    \/ (Len(email_status) >= 6 /\ SubSeq(email_status, 1, 6) = "error ")

\* C20: send_emails issues requests for eligible rows only, and for every
\* table with more than one row it computes the selection without failing.
C20_SelectionIsComputed ==
    mail.called =>
        /\ Len(mail.requests) <= Cardinality(EligibleRows)
        /\ Len(mail.table) > 1 => (error # "ValueError" /\ pc # "crashed")

\* C13: a failure on one row never stops the batch: in a confirmed call every
\* eligible row within the limit is attempted, and the outcome of each is in
\* the email_status of its row in the investor table.
C13_BatchGoesOn ==
    (mail.called /\ Confirmed) =>
        /\ Len(mail.requests) = ToAttempt
        /\ mail.email_limit = << >> =>
              \A n \in EligibleRows :
                  /\ n <= Len(investors)
                  /\ IsOutcome(investors[n].email_status)

\* C14: send_emails asks the operator before it obtains a credential or
\* issues a request, and goes on only on the answer y in either case; on any
\* other answer it returns with no request sent and the investor table
\* unchanged, and the run is not aborted.
C14_ConfirmationGate ==
    mail.called =>
        /\ (mail.credential \/ mail.requests # << >>) => (mail.asked /\ Confirmed)
        /\ ~Confirmed =>
              /\ mail.requests = << >>
              /\ ~mail.credential
              /\ investors = mail.table
              /\ pc # "crashed"
              /\ error = "none"

\* C16: with email_limit n a call issues n requests at most; with email_limit
\* None a confirmed call attempts one request for every eligible row.
C16_LimitBoundsRequests ==
    mail.called =>
        /\ mail.email_limit # << >> => Len(mail.requests) <= mail.email_limit[1]
        /\ (mail.email_limit = << >> /\ Confirmed)
              => Len(mail.requests) = Cardinality(EligibleRows)

\* How many times a row stands in a table.
Count(table, row) == Cardinality({n \in 1..Len(table) : table[n] = row})

\* The two tables hold the same rows, each as many times.
SameRows(a, b) ==
    /\ Len(a) = Len(b)
    /\ \A n \in 1..Len(a) : Count(a, a[n]) = Count(b, a[n])

\* investors.xlsx after one more match_files_and_keys on the persisted table
\* with the document collection of this run.
MatchedAgain == ToExcel(Reconcile(ReadExcel(investors), SortValues(k1_array)))

\* C22: reconciliation is idempotent on the investor table: a second
\* match_files_and_keys with the same document collection leaves the table
\* with the same rows, counted with multiplicity, as the first left it, also
\* when two documents have the same key or an investor key is not unique.
C22_ReconcileIsIdempotent ==
    pc = "matched" => SameRows(MatchedAgain, investors)

\* C24: in every persisted state of the investor table a row whose
\* email_status is file_found has a matched filename.
C24_FileFoundHasFilename ==
    \A n \in 1..Len(investors) :
        investors[n].email_status = "file_found"
            => notna(ReadCell(investors[n].matched_k1_filename))

\* The addresses recorded in the row: its address columns that are not
\* blank, stripped.
OwnAddresses ==
    {strip(RowEmails[i].email_address) :
        i \in {j \in 1..4 : notna(RowEmails[j].email_address)}}

\* A request went to the row's own addresses.
ToOwnAddresses(recipients) ==
    OwnAddresses \subseteq
        ({recipients.toRecipients[n] : n \in 1..Len(recipients.toRecipients)}
         \cup {recipients.ccRecipients[n] : n \in 1..Len(recipients.ccRecipients)}
         \cup {recipients.bccRecipients[n] : n \in 1..Len(recipients.bccRecipients)})

====
